---- MODULE Spec2Model ----
(***************************************************************************)
(* CCPM: the fuzzy c-means engine (CCPM/clustering/cluster.py) and the     *)
(* output checks of the command line scripts (CCPM/io/utils.py).           *)
(*                                                                         *)
(* Numbers.  A float64 is modelled as an exact rational <<n, d>> with      *)
(* d > 0 in lowest terms, so every numpy expression keeps its real-number  *)
(* meaning; rounding, overflow to inf and nan are outside the model.       *)
(* Arrays.  A (c, N) array is a sequence of c rows of N numbers.  Data     *)
(* has one feature (S = 1): data is the sequence of its N sample values    *)
(* and the centers are a sequence of c numbers.                            *)
(***************************************************************************)
EXTENDS Integers, Sequences, FiniteSets, TLC

\* ------------------------------------------------------------ arithmetic

Abs(x) == IF x < 0 THEN -x ELSE x

RECURSIVE GCD(_, _)
GCD(a, b) == IF b = 0 THEN a ELSE GCD(b, a % b)

\* n / d for integers n and d > 0, in lowest terms.
Rat(n, d) == LET g == GCD(Abs(n), d) IN <<n \div g, d \div g>>

Zero == <<0, 1>>
One == <<1, 1>>

RAdd(a, b) ==
    LET g == GCD(a[2], b[2])
    IN  Rat(a[1] * (b[2] \div g) + b[1] * (a[2] \div g), a[2] * (b[2] \div g))

RNeg(a) == <<-a[1], a[2]>>

RSub(a, b) == RAdd(a, RNeg(b))

RMul(a, b) ==
    LET g1 == GCD(Abs(a[1]), b[2])
        g2 == GCD(Abs(b[1]), a[2])
    IN  <<(a[1] \div g1) * (b[1] \div g2), (a[2] \div g2) * (b[2] \div g1)>>

\* 1 / a, a # 0.
RInv(a) == IF a[1] > 0 THEN <<a[2], a[1]>> ELSE <<-a[2], -a[1]>>

RDiv(a, b) == RMul(a, RInv(b))

RLt(a, b) == a[1] * b[2] < b[1] * a[2]

RLe(a, b) == a[1] * b[2] <= b[1] * a[2]

RAbs(a) == <<Abs(a[1]), a[2]>>

RMax(a, b) == IF RLt(a, b) THEN b ELSE a

\* a ** k for an integer k >= 0.
RECURSIVE RPow(_, _)
RPow(a, k) == IF k = 0 THEN One ELSE RMul(a, RPow(a, k - 1))

\* The sum of a sequence of numbers (ndarray.sum).
RECURSIVE RSum(_)
RSum(s) == IF s = <<>> THEN Zero ELSE RAdd(s[1], RSum(Tail(s)))

\* np.finfo(np.float64).eps, the smallest membership and distance the steps
\* let through.  It is 2^-52 in numpy; the model keeps its role with a
\* denominator that leaves room for the squares in TLC's integers.
EpsDen == 4

Eps == <<1, EpsDen>>

\* ---------------------------------------------------------------- arrays

Rows(u) == 1..Len(u)

Cols(u) == 1..Len(u[1])

\* u.sum(axis=0)[j]
ColSum(u, j) == RSum([i \in Rows(u) |-> u[i][j]])

\* u / np.ones((c, 1)).dot(np.atleast_2d(u.sum(axis=0)))
normalize_columns(u) ==
    [i \in Rows(u) |-> [j \in Cols(u) |-> RDiv(u[i][j], ColSum(u, j))]]

\* np.fmax(u, x), elementwise
fmax(u, x) == [i \in Rows(u) |-> [j \in Cols(u) |-> RMax(u[i][j], x)]]

\* u ** k, elementwise
power(u, k) == [i \in Rows(u) |-> [j \in Cols(u) |-> RPow(u[i][j], k)]]

\* All the entries of an array, row after row.
RECURSIVE flat(_)
flat(u) == IF u = <<>> THEN <<>> ELSE u[1] \o flat(Tail(u))

\* np.linalg.norm(a - b) ** 2: the squared Frobenius norm of the difference.
SqNorm(a, b) ==
    RSum(flat([i \in Rows(a) |-> [j \in Cols(a) |->
                  RPow(RSub(a[i][j], b[i][j]), 2)]]))

\* np.linalg.norm(a - b) < error.  The norm is a square root, never
\* negative: it is below error exactly when error is positive and the
\* squared norm is below its square.
NormBelow(a, b, error) ==
    RLt(Zero, error) /\ RLt(SqNorm(a, b), RMul(error, error))

\* compute_distance(data, cntr, metric='euclidean') of
\* CCPM.clustering.distance: the (c, N) array of the distances between each
\* center and each sample.  With one feature the euclidean distance is the
\* absolute difference.
compute_distance(data, cntr) ==
    [i \in 1..Len(cntr) |-> [j \in 1..Len(data) |->
        RAbs(RSub(<<data[j], 1>>, cntr[i]))]]

\* ------------------------------------------------------ clustering steps

\* The exponent of d ** (- 2. / (m - 1)), negated: 2 for m = 2, 1 for m = 3.
DistExp(m) == 2 \div (m - 1)

\* Variant of Membership that leaves out the last line of the step,
\* u /= np.ones((c, 1)).dot(np.atleast_2d(u.sum(axis=0))).
Membership_unnormalized(d, m) ==
    [i \in Rows(d) |-> [j \in Cols(d) |-> RInv(RPow(d[i][j], DistExp(m)))]]

\* d ** (- 2. / (m - 1)), elementwise, then the column normalisation.
Membership(d, m) ==
    normalize_columns([i \in Rows(d) |-> [j \in Cols(d) |->
        RInv(RPow(d[i][j], DistExp(m)))]])

\* (um * d ** 2).sum()
Objective(um, d) ==
    RSum(flat([i \in Rows(um) |-> [j \in Cols(um) |->
                  RMul(um[i][j], RPow(d[i][j], 2))]]))

\* um.dot(data) / um.sum(axis=1): the weighted mean of the samples.
Centers(um, data) ==
    [i \in Rows(um) |->
        RDiv(RSum([j \in Cols(um) |-> RMul(um[i][j], <<data[j], 1>>)]),
             RSum(um[i]))]

\* cmeans0: one step of the clustering.  u_old is the array the caller
\* passes; u_old_inplace is what the step leaves in that array ( /= writes
\* through the reference, the fmax after it binds a new array).
cmeans0(data, u_old, c, m) ==
    LET u_norm == normalize_columns(u_old)
        um == power(fmax(u_norm, Eps), m)
        cntr == Centers(um, data)
        d == fmax(compute_distance(data, cntr), Eps)
    IN  [u_old_inplace |-> u_norm,
         cntr |-> cntr,
         u |-> Membership(d, m),
         jm |-> Objective(um, d),
         d |-> d]

\* Variant of cmeans_predict0 that recalculates the centers as cmeans0 does.
cmeans_predict0_recalc(test_data, cntr, u_old, c, m) ==
    cmeans0(test_data, u_old, c, m)

\* cmeans_predict0: one step of the prediction.  cntr is not recalculated.
cmeans_predict0(test_data, cntr, u_old, c, m) ==
    LET u_norm == normalize_columns(u_old)
        um == power(fmax(u_norm, Eps), m)
        d == fmax(compute_distance(test_data, cntr), Eps)
    IN  [u_old_inplace |-> u_norm,
         cntr |-> cntr,
         u |-> Membership(d, m),
         jm |-> Objective(um, d),
         d |-> d]

\* fp_coeff: np.trace(u.dot(u.T)) / float(n), the sum of the squared
\* memberships over the number of samples.
fp_coeff(u) ==
    RDiv(RSum(flat(power(u, 2))), <<Len(u[1]), 1>>)

\* ------------------------------------------------------------- the state

\* Python's None for an array, a sequence or a number that is not there, and
\* for the seed; 0 is a name that is not bound to any array yet.
None == <<>>

NoSeed == -1

Unbound == 0

VARIABLES
    fn,            \* the function the script calls
    data,          \* data (test_data of the prediction), its N sample values
    c,             \* the number of clusters
    m,             \* the exponent of the memberships
    error,         \* the stopping criterion
    maxiter,       \* the maximum number of iterations
    init,          \* the initial matrix the caller passes (None: random)
    cntr_trained,  \* the trained centers passed to the prediction
    seed,          \* the seed of the call in progress
    rng,           \* the state of numpy's global random generator
    heap,          \* the arrays: address -> contents (None: no array there)
    u0, u, u2,     \* the arrays the names u0, u and u2 are bound to
    cntr, d, jm, p, fpc,   \* the other locals of cmeans / cmeans_predict
    u_before,      \* history: the contents of u when the last step began
    pc,            \* where the call is
    calls,         \* how many calls the script has begun
    first,         \* what its first call gave back
    fs,            \* the file system: what each path is
    fs_before,     \* history: the file system when the last check began
    args,          \* the arguments of the last output check
    outcome        \* how that check ended

clusterVars == <<fn, data, c, m, error, maxiter, init, cntr_trained, seed, rng,
                 heap, u0, u, u2, cntr, d, jm, p, fpc, u_before, pc, calls,
                 first>>

ioVars == <<fs, fs_before, args, outcome>>

vars == <<clusterVars, ioVars>>

\* No call has ended yet.
NoCall == [seed |-> NoSeed, out |-> [status |-> "none"]]

\* ------------------------------------------------------------ the arrays

Addr == 1..4

\* The caller's init array, when there is one, is the array at InitAddr; a
\* random guess is put there too.
InitAddr == 1

\* An address no live name holds.
Fresh(live) == CHOOSE a \in Addr \ live : \A b \in Addr \ live : a <= b

NewArray(h, live, val) ==
    [ref |-> Fresh(live), h |-> [h EXCEPT ![Fresh(live)] = val]]

\* Variant of fmax_new that writes into its argument, np.fmax(u0, eps, out=u0).
fmax_inplace(h, ref, live) ==
    [ref |-> ref, h |-> [h EXCEPT ![ref] = fmax(h[ref], Eps)]]

\* np.fmax(u0, eps): the result is a new array.
fmax_new(h, ref, live) == NewArray(h, live, fmax(h[ref], Eps))

\* u.copy()
copy(h, ref, live) == NewArray(h, live, h[ref])

\* An array no name holds any more is collected.
Release(h, a, live) == IF a \in live \/ a = Unbound THEN h ELSE [h EXCEPT ![a] = None]

\* ---------------------------------------------------- the random numbers

\* numpy's generator is a deterministic function of its state.  The model
\* keeps that: a state in 0..RngMod-1, np.random.seed(seed) sets it from the
\* seed, np.random.rand(c, n) reads c * n numbers of [0, 1) off it and moves
\* it on.
RngMod == 3

seed_state(s) == s % RngMod

rand(r, cc, n) ==
    [i \in 1..cc |-> [j \in 1..n |-> Rat(1 + ((r + i + 2 * j) % 3), 4)]]

rng_after(r, cc, n) == (r + cc * n) % RngMod

\* ------------------------------------------------------------ the inputs

MaxIter == 4

MaxCalls == 2

MaxiterValues == -1..MaxIter

ErrorValues == {Zero, <<1, 4>>}

SeedValues == {NoSeed, 0, 1}

Fns == {"cmeans", "cmeans_predict", "cmeans0", "cmeans_predict0"}

Drivers == {"cmeans", "cmeans_predict"}

\* The columns an initial matrix is made of: crisp, even, not normalised.
InitColumns(cc) ==
    IF cc = 1 THEN {<<Zero>>, <<One>>, <<Rat(1, 2)>>}
    ELSE {<<One, Zero>>, <<Zero, One>>, <<Rat(1, 2), Rat(1, 2)>>,
          <<One, One>>, <<Zero, Zero>>}

InitValues(cc, n) ==
    {[i \in 1..cc |-> [j \in 1..n |-> col[j][i]]] :
        col \in [1..n -> InitColumns(cc)]}

AllSame(s) == \A j \in 1..Len(s) : s[j] = s[1]

EqualRows(a) == \A i \in Rows(a) : a[i] = a[1]

PositiveColumns(a) == \A j \in Cols(a) : RLt(Zero, ColSum(a, j))

\* Exact arithmetic squares its denominators at every step of a clustering
\* that moves, so the clustering is run to its end where it settles at
\* once: one cluster, samples that coincide, or a matrix of equal rows.
\* Single steps and the prediction are run on samples that differ.
TrainInputs(dat, cc) ==
    {i \in InitValues(cc, Len(dat)) \cup {None} :
        cc = 1 \/ AllSame(dat) \/ (i # None /\ EqualRows(i))}

InitCluster ==
    /\ fn \in Fns
    /\ data \in {<<1>>, <<1, 1>>, <<0, 2>>}
    /\ cntr_trained \in (IF fn \in {"cmeans_predict", "cmeans_predict0"}
                         THEN {<<One>>, <<Zero, Rat(2, 1)>>}
                         ELSE {None})
    /\ c \in (IF cntr_trained # None THEN {Len(cntr_trained)} ELSE {1, 2})
    /\ m \in {2, 3}
    /\ error \in (IF fn \in Drivers THEN ErrorValues ELSE {Zero})
    /\ maxiter \in (IF fn \in Drivers THEN MaxiterValues ELSE {0})
    /\ init \in (CASE fn = "cmeans" -> TrainInputs(data, c)
                   [] fn = "cmeans_predict" -> InitValues(c, Len(data)) \cup {None}
                   [] OTHER -> {i \in InitValues(c, Len(data)) : PositiveColumns(i)})
    /\ seed = NoSeed
    /\ rng \in (IF init = None THEN 0..(RngMod - 1) ELSE {0})
    /\ heap = [a \in Addr |-> IF a = InitAddr THEN init ELSE None]
    /\ u0 = Unbound /\ u = Unbound /\ u2 = Unbound
    /\ cntr = None /\ d = None /\ jm = <<>> /\ p = 0 /\ fpc = None
    /\ u_before = None
    /\ pc = "idle"
    /\ calls = 0
    /\ first = NoCall

\* --------------------------------------------- cmeans and cmeans_predict

\* Variant of LoopCond that runs the loop while p <= maxiter.
LoopCond_inclusive(pp, mi) == pp <= mi

\* while p < maxiter - 1
LoopCond(pp, mi) == pp < mi - 1

\* Variant of hstack that keeps the last objective alone, jm = Jjm.
hstack_overwrite(hist, Jjm) == <<Jjm>>

\* jm = np.hstack((jm, Jjm))
hstack(hist, Jjm) == Append(hist, Jjm)

\* What a call gives back: the returned tuple by value, or the exception.
Returned(cn, f) ==
    [status |-> "returned", cntr |-> cn, u |-> heap[u], u0 |-> heap[u0],
     d |-> d, jm |-> jm, p |-> p, fpc |-> f]

Raised == [status |-> "raised"]

\* Variant of UseRandom that draws the guess whenever a seed is given.
UseRandom_seeded(s) == init = None \/ s # NoSeed

\* if init is None
UseRandom(s) == init = None

\* "Setup u0" and "Initialize loop parameters".  Without init the guess is
\* drawn (after np.random.seed(seed) when a seed is given), normalised and
\* copied; with init no random number is asked for.  u0 is bound to init and
\* u to a new array, np.fmax(u0, eps).
Setup(s) ==
    LET n == Len(data)
        r0 == IF s # NoSeed THEN seed_state(s) ELSE rng
        guess == normalize_columns(rand(r0, c, n))
        h0 == [a \in Addr |->
                 IF a # InitAddr THEN None
                 ELSE IF UseRandom(s) THEN guess ELSE heap[InitAddr]]
        cl == fmax_new(h0, InitAddr, {InitAddr})
    IN  /\ pc \in {"idle", "returned", "raised"}
        /\ calls < MaxCalls
        /\ seed' = s
        /\ rng' = IF UseRandom(s) THEN rng_after(r0, c, n) ELSE rng
        /\ heap' = cl.h
        /\ u0' = InitAddr
        /\ u' = cl.ref
        /\ u2' = Unbound
        /\ cntr' = None /\ d' = None /\ fpc' = None
        /\ jm' = <<>>
        /\ p' = 0
        /\ u_before' = None
        /\ pc' = "loop"
        /\ calls' = calls + 1
        /\ UNCHANGED <<fn, data, c, m, error, maxiter, init, cntr_trained, first>>

\* One pass of the main loop around the step r, which was handed the copy
\* at r2: the step has written its normalised argument into that array, its
\* u is a new array, and the stopping rule compares the two.
LoopBody(h, r2, r) ==
    LET h1 == [h EXCEPT ![r2] = r.u_old_inplace]
        nu == NewArray(h1, {u0, u, r2}, r.u)
        h2 == Release(Release(nu.h, u, {u0, r2, nu.ref}), u2, {u0, r2, nu.ref})
    IN  /\ heap' = h2
        /\ u2' = r2
        /\ u' = nu.ref
        /\ d' = r.d
        /\ jm' = hstack(jm, r.jm)
        /\ p' = p + 1
        /\ u_before' = heap[u]
        /\ pc' = IF NormBelow(h2[nu.ref], h2[r2], error) THEN "final" ELSE "loop"
        /\ UNCHANGED <<fn, data, c, m, error, maxiter, init, seed, rng, u0,
                       fpc, calls, first>>

\* "Final calculations" and the return.  u2 is bound by the loop alone: when
\* the loop never ran, np.linalg.norm(u - u2) raises UnboundLocalError.
Final(cn) ==
    LET out == IF u2 = Unbound THEN Raised ELSE Returned(cn, fp_coeff(heap[u]))
    IN  /\ pc = "final" \/ (pc = "loop" /\ ~LoopCond(p, maxiter))
        /\ pc' = out.status
        /\ fpc' = IF u2 = Unbound THEN None ELSE out.fpc
        /\ first' = IF calls = 1 THEN [seed |-> seed, out |-> out] ELSE first
        /\ UNCHANGED <<fn, data, c, m, error, maxiter, init, cntr_trained, seed,
                       rng, heap, u0, u, u2, cntr, d, jm, p, u_before, calls>>

CallCmeans ==
    /\ fn = "cmeans"
    /\ \E s \in SeedValues : Setup(s)

IterCmeans ==
    /\ fn = "cmeans"
    /\ pc = "loop"
    /\ LoopCond(p, maxiter)
    /\ LET cp == copy(heap, u, {u0, u})
           r == cmeans0(data, cp.h[cp.ref], c, m)
       IN  /\ LoopBody(cp.h, cp.ref, r)
           /\ cntr' = r.cntr
           /\ UNCHANGED cntr_trained

ReturnCmeans ==
    /\ fn = "cmeans"
    /\ Final(cntr)

CallPredict ==
    /\ fn = "cmeans_predict"
    /\ \E s \in SeedValues : Setup(s)

IterPredict ==
    /\ fn = "cmeans_predict"
    /\ pc = "loop"
    /\ LoopCond(p, maxiter)
    /\ LET cp == copy(heap, u, {u0, u})
           r == cmeans_predict0(data, cntr_trained, cp.h[cp.ref], c, m)
       IN  /\ LoopBody(cp.h, cp.ref, r)
           /\ cntr_trained' = r.cntr
           /\ UNCHANGED cntr

ReturnPredict ==
    /\ fn = "cmeans_predict"
    /\ Final(None)

\* A step called on its own, on the caller's array.
StepDone(r) ==
    /\ pc \in {"idle", "returned"}
    /\ calls < MaxCalls
    /\ heap' = [a \in Addr |->
                  IF a = InitAddr THEN r.u_old_inplace
                  ELSE IF a = InitAddr + 1 THEN r.u ELSE None]
    /\ u2' = InitAddr
    /\ u' = InitAddr + 1
    /\ d' = r.d
    /\ jm' = <<r.jm>>
    /\ u_before' = heap[InitAddr]
    /\ pc' = "returned"
    /\ calls' = calls + 1
    /\ UNCHANGED <<fn, data, c, m, error, maxiter, init, seed, rng, u0, p, fpc,
                   first>>

StepCmeans0 ==
    /\ fn = "cmeans0"
    /\ LET r == cmeans0(data, heap[InitAddr], c, m)
       IN  /\ StepDone(r)
           /\ cntr' = r.cntr
           /\ UNCHANGED cntr_trained

StepPredict0 ==
    /\ fn = "cmeans_predict0"
    /\ LET r == cmeans_predict0(data, cntr_trained, heap[InitAddr], c, m)
       IN  /\ StepDone(r)
           /\ cntr_trained' = r.cntr
           /\ UNCHANGED cntr

\* ------------------------------------------------------ the file system

\* A path is the sequence of its components: <<>> is the empty string,
\* <<"out", "a.csv">> is out/a.csv.  The file system gives what is at each
\* path: nothing, a regular file (or a link to one), a directory, a link to
\* a directory, a link to nothing, or a directory whose contents the
\* process may not delete.
Names == {"a.csv", "sub"}

OutDir == <<"out">>

Paths == {<<"a.csv">>, OutDir} \cup {Append(OutDir, n) : n \in Names}

Kinds == {"absent", "file", "dir", "symlink_dir", "broken_symlink", "locked_dir"}

\* os.path.dirname
dirname(path) == IF path = <<>> THEN <<>> ELSE SubSeq(path, 1, Len(path) - 1)

\* os.path.join(path, file)
join(path, file) == Append(path, file)

\* os.path.isfile: a regular file, links followed.
isfile(f, path) == path \in DOMAIN f /\ f[path] = "file"

\* os.path.isdir: a directory, links followed.
isdir(f, path) ==
    path \in DOMAIN f /\ f[path] \in {"dir", "symlink_dir", "locked_dir"}

\* os.listdir
listdir(f, path) ==
    {n \in Names : join(path, n) \in DOMAIN f /\ f[join(path, n)] # "absent"}

\* os.makedirs(path, exist_ok=True) where nothing is at path
makedirs(f, path) == [f EXCEPT ![path] = "dir"]

FileSystems ==
    {f \in [Paths -> Kinds] :
        /\ f[<<"a.csv">>] \in {"absent", "file"}
        /\ f[OutDir] \in {"absent", "file", "dir"}
        /\ f[OutDir] # "dir" => \A n \in Names : f[join(OutDir, n)] = "absent"}

\* An argument that is None, one string, or a list of strings.
NoArg == [kind |-> "none", val |-> <<>>]

Str(path) == [kind |-> "str", val |-> <<path>>]

List(paths) == [kind |-> "list", val |-> paths]

\* if isinstance(a, str): a = [a]; for file in a or []
AsList(a) == a.val

\* ----------------------------------------------------------- assert_output

\* Variant of check_output that exits on an existing file whatever -f says.
check_output_no_force(f, path, overwrite, check_dir) ==
    IF isfile(f, path) THEN "exit_exists"
    ELSE IF check_dir /\ dirname(path) # <<>> /\ ~isdir(f, dirname(path))
         THEN "exit_no_dir"
    ELSE ""

\* check(path) of assert_output: "" when it passes, else why it exits.
check_output(f, path, overwrite, check_dir) ==
    IF isfile(f, path) /\ ~overwrite THEN "exit_exists"
    ELSE IF check_dir /\ dirname(path) # <<>> /\ ~isdir(f, dirname(path))
         THEN "exit_no_dir"
    ELSE ""

\* The paths in turn, to the first that exits.  sys.exit ends the function.
RECURSIVE check_outputs(_, _, _, _)
check_outputs(f, paths, overwrite, check_dir) ==
    IF paths = <<>> THEN "returned"
    ELSE LET r == check_output(f, paths[1], overwrite, check_dir)
         IN  IF r # "" THEN r
             ELSE check_outputs(f, Tail(paths), overwrite, check_dir)

\* for file in optional or []: if file: check(file)
NonEmpty(paths) == SelectSeq(paths, LAMBDA q : q # <<>>)

assert_output(f, overwrite, required, optional, check_dir) ==
    [fs |-> f,
     outcome |-> check_outputs(f, AsList(required) \o NonEmpty(AsList(optional)),
                               overwrite, check_dir)]

\* ------------------------------------------------- assert_output_dir_exist

\* Variant of clear_dir that unlinks the files and leaves the directories.
clear_dir_files_only(f, path) ==
    [q \in DOMAIN f |->
        IF dirname(q) = path /\ f[q] = "file" THEN "absent" ELSE f[q]]

\* The loop over os.listdir(path): os.unlink for what is a file,
\* shutil.rmtree for what is a directory; an exception is printed and the
\* loop goes on.  rmtree raises on a link to a directory and on contents
\* it may not delete; what is neither a file nor a directory is skipped.
clear_dir(f, path) ==
    [q \in DOMAIN f |->
        IF dirname(q) = path /\ f[q] \in {"file", "dir"} THEN "absent" ELSE f[q]]

\* check(path) of assert_output_dir_exist
check_dir_exist(f, path, overwrite, create_dir) ==
    IF ~isdir(f, path) /\ ~create_dir THEN [fs |-> f, outcome |-> "exit_missing"]
    ELSE IF ~isdir(f, path) /\ f[path] # "absent"
         THEN [fs |-> f, outcome |-> "raised"]
    ELSE LET f1 == IF isdir(f, path) THEN f ELSE makedirs(f, path)
         IN  IF listdir(f1, path) = {} THEN [fs |-> f1, outcome |-> ""]
             ELSE IF ~overwrite THEN [fs |-> f1, outcome |-> "exit_not_empty"]
             ELSE [fs |-> clear_dir(f1, path), outcome |-> ""]

RECURSIVE check_dirs(_, _, _, _)
check_dirs(f, paths, overwrite, create_dir) ==
    IF paths = <<>> THEN [fs |-> f, outcome |-> "returned"]
    ELSE LET r == check_dir_exist(f, paths[1], overwrite, create_dir)
         IN  IF r.outcome # "" THEN r
             ELSE check_dirs(r.fs, Tail(paths), overwrite, create_dir)

assert_output_dir_exist(f, overwrite, required, optional, create_dir) ==
    check_dirs(f, AsList(required) \o NonEmpty(AsList(optional)),
               overwrite, create_dir)

\* ------------------------------------------------------ the output checks

OutputPaths == {<<>>, <<"a.csv">>, OutDir, join(OutDir, "a.csv")}

RequiredOutputs ==
    {Str(q) : q \in OutputPaths}
      \cup {List(<<q, r>>) : q \in {<<"a.csv">>}, r \in OutputPaths}

OptionalOutputs ==
    {NoArg, Str(<<>>), Str(join(OutDir, "a.csv")), List(<<<<>>, <<"a.csv">>>>)}

RequiredDirs == {Str(OutDir), List(<<OutDir>>), List(<<OutDir, OutDir>>)}

OptionalDirs == {NoArg, Str(<<>>), Str(OutDir), List(<<<<>>, OutDir>>)}

AssertOutput ==
    \E overwrite \in BOOLEAN, check_dir \in BOOLEAN,
       required \in RequiredOutputs, optional \in OptionalOutputs :
        LET r == assert_output(fs, overwrite, required, optional, check_dir)
        IN  /\ outcome = "idle"
            /\ args' = [fn |-> "assert_output", overwrite |-> overwrite,
                        required |-> required, optional |-> optional,
                        flag |-> check_dir]
            /\ fs_before' = fs
            /\ fs' = r.fs
            /\ outcome' = r.outcome

AssertOutputDirExist ==
    \E overwrite \in BOOLEAN, create_dir \in BOOLEAN,
       required \in RequiredDirs, optional \in OptionalDirs :
        LET r == assert_output_dir_exist(fs, overwrite, required, optional,
                                         create_dir)
        IN  /\ outcome = "idle"
            /\ args' = [fn |-> "assert_output_dir_exist", overwrite |-> overwrite,
                        required |-> required, optional |-> optional,
                        flag |-> create_dir]
            /\ fs_before' = fs
            /\ fs' = r.fs
            /\ outcome' = r.outcome

NoCheck == [fn |-> "none", overwrite |-> FALSE, required |-> NoArg,
            optional |-> NoArg, flag |-> FALSE]

\* ------------------------------------------------------ the specifications

Init ==
    /\ InitCluster
    /\ fs = [q \in Paths |-> "absent"]
    /\ fs_before = fs
    /\ args = NoCheck
    /\ outcome = "idle"

Next ==
    \/ CallCmeans /\ UNCHANGED ioVars
    \/ IterCmeans /\ UNCHANGED ioVars
    \/ ReturnCmeans /\ UNCHANGED ioVars
    \/ CallPredict /\ UNCHANGED ioVars
    \/ IterPredict /\ UNCHANGED ioVars
    \/ ReturnPredict /\ UNCHANGED ioVars
    \/ StepCmeans0 /\ UNCHANGED ioVars
    \/ StepPredict0 /\ UNCHANGED ioVars

\* The clustering: a script that calls one of the four functions, twice.
Spec == Init /\ [][Next]_vars

InitIO ==
    /\ fn = "none" /\ data = None /\ c = 0 /\ m = 0 /\ error = Zero
    /\ maxiter = 0 /\ init = None /\ cntr_trained = None /\ seed = NoSeed
    /\ rng = 0 /\ heap = [a \in Addr |-> None]
    /\ u0 = Unbound /\ u = Unbound /\ u2 = Unbound
    /\ cntr = None /\ d = None /\ jm = <<>> /\ p = 0 /\ fpc = None
    /\ u_before = None /\ pc = "idle" /\ calls = 0
    /\ first = NoCall
    /\ fs \in FileSystems
    /\ fs_before = fs
    /\ args = NoCheck
    /\ outcome = "idle"

NextIO ==
    \/ AssertOutput /\ UNCHANGED clusterVars
    \/ AssertOutputDirExist /\ UNCHANGED clusterVars

\* The output checks of a script, on any file system.
SpecIO == InitIO /\ [][NextIO]_vars

\* ------------------------------------------------------------- the claims

Predictors == {"cmeans_predict", "cmeans_predict0"}

\* A step has run: an iteration of a driver, or a step called on its own.
StepRan == (fn \in Drivers /\ p >= 1) \/ (fn \in Fns \ Drivers /\ pc = "returned")

\* Every column sums to 1 and every entry is in (0, 1].
Normalized(a) ==
    \A j \in Cols(a) :
        /\ ColSum(a, j) = One
        /\ \A i \in Rows(a) : RLt(Zero, a[i][j]) /\ RLe(a[i][j], One)

\* C1: after every step of cmeans0 and cmeans_predict0, and so in the u of
\* cmeans and cmeans_predict once an iteration has run, the memberships of
\* every sample sum to 1 and each is strictly positive and at most 1.
C1_MembershipNormalized == StepRan => Normalized(heap[u])

\* A step on samples that differ has given two clusters unequal memberships.
C1_Witness ==
    /\ StepRan
    /\ fn \in {"cmeans0", "cmeans_predict"}
    /\ c = 2
    /\ ~AllSame(data)
    /\ \E j \in Cols(heap[u]) : heap[u][1][j] # heap[u][2][j]

\* norm(u[p] - u[p-1]) < error, u[p-1] being the matrix the last step began
\* with.
LastChangeBelow == NormBelow(heap[u], u_before, error)

\* The init passed in has no entry below eps: the clipping of line 176
\* leaves it as it is, and u[0] is the init itself.
InitAboveEps ==
    init # None /\ \A i \in Rows(init), j \in Cols(init) : RLe(Eps, init[i][j])

\* C2: the drivers stop at the first iteration p whose change
\* norm(u[p] - u[p-1]) is below error: a further step is run only when the
\* change of the last one was not below error, and on return either the
\* change of the last iteration was below error or the loop was at its cap.
\* Stated for the calls whose init has no entry below eps.
C2_StopsAtFirstSmallChange ==
    (fn \in Drivers /\ InitAboveEps) =>
        /\ (pc = "loop" /\ p >= 1 /\ LoopCond(p, maxiter)) => ~LastChangeBelow
        /\ pc = "returned" => (LastChangeBelow \/ ~LoopCond(p, maxiter))

\* What the drivers do: the change they compare with error is that from
\* the column-normalised u[p-1], which the step has written into u2.
C2_StopsOnNormalizedChange ==
    fn \in Drivers =>
        /\ p >= 1 => heap[u2] = normalize_columns(u_before)
        /\ (pc = "loop" /\ p >= 1 /\ LoopCond(p, maxiter)) =>
              ~NormBelow(heap[u], heap[u2], error)
        /\ pc = "returned" =>
              (NormBelow(heap[u], heap[u2], error) \/ ~LoopCond(p, maxiter))

\* C3: the number of iterations run, and the p returned, never exceeds
\* maxiter, for every maxiter that is a count (0 or more).
C3_IterationsWithinMaxiter ==
    (fn \in Drivers /\ maxiter >= 0) => (p <= maxiter /\ Len(jm) <= maxiter)

\* A call that returned after running the loop to its cap, more than once.
C3_Witness ==
    fn \in Drivers /\ pc = "returned" /\ p >= 2 /\ ~LoopCond(p, maxiter)

\* C4: the objective history starts empty and has one value per iteration
\* run, appended in iteration order: its length is p at every moment, and
\* an iteration leaves the values already there in place.
C4_ObjectiveHistoryLength ==
    /\ [](fn \in Drivers => Len(jm) = p /\ (p = 0 => jm = <<>>))
    /\ [][(fn \in Drivers /\ p' = p + 1) =>
            (Len(jm') = Len(jm) + 1 /\ SubSeq(jm', 1, Len(jm)) = jm)]_vars

\* A call that returned a history of two different objective values.
C4_Witness ==
    fn \in Drivers /\ pc = "returned" /\ Len(jm) = 2 /\ jm[1] # jm[2]

\* C5: the prediction never updates the trained centers: no step changes
\* cntr_trained, the distances of every iteration are those to the centers
\* passed in, and the samples are left alone too.
C5_TrainedCentersFixed ==
    /\ [][(fn \in Predictors) =>
            (cntr_trained' = cntr_trained /\ data' = data)]_vars
    /\ [](fn \in Predictors /\ StepRan =>
            d = fmax(compute_distance(data, cntr_trained), Eps))

\* The prediction has run twice on samples that differ and the memberships
\* have moved away from the initial ones.
C5_Witness ==
    /\ fn = "cmeans_predict" /\ p >= 2 /\ c = 2 /\ ~AllSame(data)
    /\ heap[u] # normalize_columns(heap[u0])

\* How the call in progress ended.
Outcome == IF pc = "raised" THEN Raised ELSE Returned(cntr, fpc)

\* C6: with init given the seed has no effect: a second call on the same
\* data, parameters and init gives back what the first gave, whatever the
\* two seeds, and no call touches the random generator.
C6_SeedIgnoredWithInit ==
    /\ []((fn \in Drivers /\ init # None /\ calls = 2
              /\ pc \in {"returned", "raised"}) => Outcome = first.out)
    /\ [][(fn \in Drivers /\ init # None) => rng' = rng]_vars

\* Two calls with init and different seeds have returned.
C6_Witness ==
    /\ fn \in Drivers /\ init # None /\ calls = 2 /\ pc = "returned"
    /\ seed # first.seed /\ seed # NoSeed /\ first.seed # NoSeed
    /\ p >= 2

\* The random column-normalised guess of the call in progress.
IsGuess(a) ==
    IF seed # NoSeed
    THEN a = normalize_columns(rand(seed_state(seed), c, Len(data)))
    ELSE \E r \in 0..(RngMod - 1) : a = normalize_columns(rand(r, c, Len(data)))

\* C7: u0 is the initial guess, the init passed in or else the random
\* column-normalised guess, and the run leaves that matrix as it was though
\* every step normalises its argument in place.
C7_InitialGuessKept ==
    /\ []((fn \in Drivers /\ pc # "idle") =>
            /\ u0 = InitAddr
            /\ init # None => heap[u0] = init
            /\ init = None => IsGuess(heap[u0]))
    /\ [][(fn \in Drivers /\ pc # "idle" /\ calls' = calls) =>
            (u0' = u0 /\ heap'[u0] = heap[u0])]_vars

\* A call has returned whose init had a zero and columns that do not sum
\* to 1, after steps that normalised their argument.
C7_Witness ==
    /\ fn \in Drivers /\ pc = "returned" /\ init # None /\ p >= 2
    /\ \E i \in Rows(init), j \in Cols(init) : init[i][j] = Zero
    /\ \E j \in Cols(init) : ColSum(init, j) # One
    /\ \E i \in Rows(init), j \in Cols(init) : heap[u0][i][j] = Zero
    /\ Normalized(heap[u2])

\* The paths assert_output checks: the required ones and the optional ones
\* that are not empty.
CheckedOutputs(a) ==
    {a.required.val[k] : k \in 1..Len(a.required.val)}
      \cup ({a.optional.val[k] : k \in 1..Len(a.optional.val)} \ {<<>>})

\* The path is an existing file and overwrite is false, or check_dir is true
\* and its parent directory component is not empty and is not a directory.
MustExit(f, path, a) ==
    \/ isfile(f, path) /\ ~a.overwrite
    \/ a.flag /\ dirname(path) # <<>> /\ ~isdir(f, dirname(path))

\* C8: assert_output exits with an error exactly when one of the paths it
\* checks is an existing file while overwrite is false, or has a parent
\* directory that does not exist while check_dir is true; otherwise it
\* returns; it never changes the file system.
C8_AssertOutputForcesOverwrite ==
    args.fn = "assert_output" =>
        /\ fs = fs_before
        /\ outcome \in {"returned", "exit_exists", "exit_no_dir"}
        /\ outcome # "returned" <=>
              \E path \in CheckedOutputs(args) : MustExit(fs_before, path, args)

\* With -f, an existing output file passed and a missing directory did not.
C8_Witness ==
    /\ args.fn = "assert_output" /\ args.overwrite /\ args.flag
    /\ outcome = "exit_no_dir"
    /\ \E path \in CheckedOutputs(args) : isfile(fs_before, path)

CheckedDirs(a) ==
    {a.required.val[k] : k \in 1..Len(a.required.val)}
      \cup ({a.optional.val[k] : k \in 1..Len(a.optional.val)} \ {<<>>})

====
